---- MODULE Spec2Model ----
(***************************************************************************)
(* Task Tracker (sirthus/task-tracker, main.go): the Tasks HTTP handler,   *)
(* the in-memory task slice with its identifier counter and mutex, the     *)
(* file persistence (LoadTasksFromFile / SaveTasksToFile) and the process  *)
(* lifecycle of main (load, serve, signal, save, shutdown).                *)
(*                                                                         *)
(* Each request is served by one goroutine.  A handler is modelled as the  *)
(* sequence of its accesses to the shared state: the request is read and   *)
(* validated in one local step, then the mutex is taken and every read or  *)
(* write of `tasks` / `lastID` is a step of its own, then the response is  *)
(* written and the deferred Unlock runs at the return.                     *)
(***************************************************************************)
EXTENDS Integers, Sequences, FiniteSets, TLC

\* ------------------------------------------------------------------ bounds
NumProcs == 2
MaxReqs == 2

Procs == 1..NumProcs

\* ------------------------------------------------------------ HTTP status
StatusOK == 200
StatusCreated == 201
StatusBadRequest == 400
StatusNotFound == 404
StatusMethodNotAllowed == 405

\* --------------------------------------------------------------- strings
\* A path segment is a sequence of characters, so that strconv.Atoi and
\* path.Clean are computed on it the way the library computes them.
Digits == <<"0", "1", "2", "3", "4", "5", "6", "7", "8", "9">>

IsDigit(c) == \E d \in 1..10 : Digits[d] = c

DigitVal(c) == (CHOOSE d \in 1..10 : Digits[d] = c) - 1

RECURSIVE ParseDigits(_, _)
ParseDigits(s, acc) ==
    IF s = <<>> THEN acc
    ELSE ParseDigits(Tail(s), acc * 10 + DigitVal(Head(s)))

\* strconv.Atoi: an optional sign, then one or more decimal digits.
Atoi(s) ==
    LET signed == s # <<>> /\ Head(s) \in {"+", "-"}
        ds == IF signed THEN Tail(s) ELSE s
    IN  IF ds = <<>> \/ \E i \in 1..Len(ds) : ~IsDigit(ds[i])
        THEN [ok |-> FALSE, val |-> 0]
        ELSE [ok |-> TRUE,
              val |-> IF signed /\ Head(s) = "-"
                      THEN 0 - ParseDigits(ds, 0)
                      ELSE ParseDigits(ds, 0)]

\* path.Clean on a rooted path given as its segments (the text between the
\* slashes): empty and "." segments go, ".." removes the segment before it.
RECURSIVE CleanSegs(_, _)
CleanSegs(rest, out) ==
    IF rest = <<>> THEN out
    ELSE LET h == Head(rest)
         IN  IF h = <<>> \/ h = <<".">>
             THEN CleanSegs(Tail(rest), out)
             ELSE IF h = <<".", ".">>
             THEN CleanSegs(Tail(rest),
                            IF out = <<>> THEN out
                            ELSE SubSeq(out, 1, Len(out) - 1))
             ELSE CleanSegs(Tail(rest), Append(out, h))

\* strings.Split(cleaned, "/"): the rooted path starts with "/", so the first
\* part is the empty string; the root "/" itself splits into two empty parts.
SplitPath(clean) ==
    IF clean = <<>> THEN << <<>>, <<>> >> ELSE << <<>> >> \o clean

\* ParseTaskID that converts the last part before it counts the parts.
ParseTaskIDNumberFirst(path) ==
    LET parts == SplitPath(CleanSegs(path, <<>>))
        a == Atoi(parts[Len(parts)])
    IN  IF ~a.ok
        THEN [err |-> "Invalid Task ID", id |-> 0]
        ELSE IF Len(parts) # 3
        THEN [err |-> "Invalid URL", id |-> 0]
        ELSE [err |-> "", id |-> a.val]

ParseTaskID(path) ==
    LET parts == SplitPath(CleanSegs(path, <<>>))
    IN  IF Len(parts) # 3
        THEN [err |-> "Invalid URL", id |-> 0]
        ELSE LET a == Atoi(parts[Len(parts)])
             IN  IF ~a.ok
                 THEN [err |-> "Invalid Task ID", id |-> 0]
                 ELSE [err |-> "", id |-> a.val]

\* ------------------------------------------------------------------ tasks
Task(i, t, c) == [id |-> i, title |-> t, completed |-> c]

ZeroTask == Task(0, "", FALSE)

\* json.Unmarshal(body, &newTask) into a zero Task: absent fields keep the
\* zero value, a body that is not a JSON object of the right types fails.
Unmarshal(body) ==
    IF body.kind # "obj"
    THEN [err |-> TRUE, task |-> ZeroTask]
    ELSE [err |-> FALSE,
          task |-> Task(IF body.hasID THEN body.id ELSE 0,
                        IF body.hasTitle THEN body.title ELSE "",
                        IF body.hasCompleted THEN body.completed ELSE FALSE)]

\* json.Marshal(tasks): a nil slice is encoded as null, any other as an array.
Marshal(ts, isNil) ==
    IF isNil THEN [kind |-> "null"] ELSE [kind |-> "list", list |-> ts]

\* FirstIndex with the loop index compared in place of the task's id.
FirstIndexByPosition(ts, id) == IF id \in 1..Len(ts) THEN id ELSE 0

\* The index of the first task with the given id, 0 when there is none
\* (the `for i, t := range tasks { if t.ID == ID { ...; break } }` loops).
FirstIndex(ts, id) ==
    IF \E i \in 1..Len(ts) : ts[i].id = id
    THEN CHOOSE i \in 1..Len(ts) :
            ts[i].id = id /\ \A j \in 1..(i - 1) : ts[j].id # id
    ELSE 0

\* ShiftDown that moves nothing: the last element is dropped, not the i-th.
ShiftDownNothing(ts, i) == ts

\* append(tasks[:i], tasks[i+1:]...) copies the tail one place down inside
\* the backing array; until the new slice header is stored the old length
\* is still in force, so the last element is seen twice.
ShiftDown(ts, i) ==
    [k \in 1..Len(ts) |-> IF k < i \/ k = Len(ts) THEN ts[k] ELSE ts[k + 1]]

DropLast(ts) == SubSeq(ts, 1, Len(ts) - 1)

RemoveAt(ts, i) == SubSeq(ts, 1, i - 1) \o SubSeq(ts, i + 1, Len(ts))

\* MaxID that keeps the id of the last task it visits.
MaxIDOfLast(ts, acc) == IF ts = <<>> THEN acc ELSE ts[Len(ts)].id

MaxID(ts, acc) ==
    LET ids == {ts[k].id : k \in 1..Len(ts)} \cup {acc}
    IN  CHOOSE m \in ids : \A x \in ids : x <= m

\* --------------------------------------------------------------- requests
SegTasks == <<"t", "a", "s", "k", "s">>

PathTasks == <<SegTasks>>

PathTask(seg) == <<SegTasks, seg>>

Body(k, hi, i, ht, t, hc, c) ==
    [kind |-> k, hasID |-> hi, id |-> i, hasTitle |-> ht, title |-> t,
     hasCompleted |-> hc, completed |-> c]

\* No bytes at all (a GET or DELETE carries no body).
BodyEmpty == Body("empty", FALSE, 0, FALSE, "", FALSE, FALSE)
\* {"title": "Missing Comma"
BodyBadJSON == Body("badjson", FALSE, 0, FALSE, "", FALSE, FALSE)
\* {}
BodyNoTitle == Body("obj", FALSE, 0, FALSE, "", FALSE, FALSE)
\* {"title": "", "completed": false}
BodyEmptyTitle == Body("obj", FALSE, 0, TRUE, "", TRUE, FALSE)
\* {"title": " "}
BodyBlankTitle == Body("obj", FALSE, 0, TRUE, " ", FALSE, FALSE)
\* {"title": "a"}
BodyA == Body("obj", FALSE, 0, TRUE, "a", FALSE, FALSE)
\* {"id": 7, "title": "b", "completed": true}
BodyB == Body("obj", TRUE, 7, TRUE, "b", TRUE, TRUE)

Request(m, p, b) == [method |-> m, path |-> p, body |-> b]

NoRequest == Request("", <<>>, BodyEmpty)

\* The requests of the clients that are served concurrently.
Requests ==
    {Request("GET", PathTasks, BodyEmpty), Request("PATCH", PathTasks, BodyEmpty)}
    \cup {Request("POST", PathTasks, b) : b \in {BodyA, BodyB, BodyEmptyTitle}}
    \cup {Request("PUT", PathTask(<<"1">>), b) : b \in {BodyB, BodyNoTitle}}
    \cup {Request("PUT", PathTask(<<"2">>), BodyA)}
    \cup {Request("DELETE", PathTask(seg), BodyEmpty) : seg \in {<<"1">>, <<"2">>}}

\* The requests of one client that sends them one after another.
SeqRequests ==
    {Request(m, p, b) :
        m \in {"GET", "POST", "PUT", "DELETE", "PATCH", "HEAD"},
        p \in {PathTasks, PathTask(<<"1">>), PathTask(<<"2">>),
               PathTask(<<"a", "b", "c">>), PathTask(<<"0">>),
               PathTask(<<"-", "1">>)},
        b \in {BodyEmpty, BodyBadJSON, BodyNoTitle, BodyEmptyTitle, BodyBlankTitle,
               BodyA, BodyB}}

\* -------------------------------------------------------------- responses
Response(st, b) == [status |-> st, body |-> b]

NoResponse == Response(0, [kind |-> "none"])

\* writeJsonError(w, status, message)
JsonError(st, msg) == Response(st, [kind |-> "error", error |-> msg])

TaskBody(t) == [kind |-> "task", task |-> t]

DeletedBody == [kind |-> "map", status |-> "success", message |-> "Task deleted"]

\* fmt.Sprintf("No task found with ID %d", ID): the id is kept as a number.
NotFound(id) ==
    Response(StatusNotFound, [kind |-> "error", error |-> "No task found with ID", arg |-> id])

\* ------------------------------------------------------------------ files
NoFile == [kind |-> "absent"]

\* Content that is no JSON value.
Garbage == [kind |-> "garbage"]

\* A file just created (or truncated) by os.Create.
EmptyFile == [kind |-> "empty"]

\* encoder.Encode(tasks) with SetIndent: the JSON text of the slice.
Encode(ts, isNil) ==
    IF isNil THEN [kind |-> "json", null |-> TRUE, elems |-> <<>>]
    ELSE [kind |-> "json", null |-> FALSE, elems |-> ts]

\* The JSON text of the tasks ts, but for the id of its element `at`, which
\* is written as a string: {"id": "x", "title": ..., "completed": ...}.
BadlyTyped(ts, at) == [kind |-> "typed", null |-> FALSE, elems |-> ts, at |-> at]

\* What the decoder leaves in a slice that held ts when element `at` of the
\* array has an id of the wrong type: it notes the error, skips the value
\* and goes on, so that every other field of every element is stored; the
\* id it skipped is the one the slice had at that index, or 0 in an element
\* the slice did not have.
StoredAround(elems, at, ts) ==
    [k \in 1..Len(elems) |->
        IF k = at
        THEN [elems[k] EXCEPT !.id = IF k <= Len(ts) THEN ts[k].id ELSE 0]
        ELSE elems[k]]

\* Decode that loses the completed flag of every task.
DecodeForgetsCompleted(content, ts, isNil) ==
    IF content.kind = "json"
    THEN [err |-> FALSE, isNil |-> content.null,
          tasks |-> [k \in 1..Len(content.elems) |->
                        [content.elems[k] EXCEPT !.completed = FALSE]]]
    ELSE IF content.kind = "typed"
    THEN [err |-> TRUE, isNil |-> FALSE,
          tasks |-> StoredAround(content.elems, content.at, ts)]
    ELSE [err |-> TRUE, isNil |-> isNil, tasks |-> ts]

\* json.NewDecoder(file).Decode(&tasks), on a slice that holds ts: the
\* error and what the slice holds afterwards.  Text that is no JSON value
\* (or no text at all) is refused before anything is stored.
Decode(content, ts, isNil) ==
    IF content.kind = "json"
    THEN [err |-> FALSE, isNil |-> content.null, tasks |-> content.elems]
    ELSE IF content.kind = "typed"
    THEN [err |-> TRUE, isNil |-> FALSE,
          tasks |-> StoredAround(content.elems, content.at, ts)]
    ELSE [err |-> TRUE, isNil |-> isNil, tasks |-> ts]

\* tasks.json as the process may find it when it starts.
InitFiles ==
    {NoFile, Garbage,
     Encode(<<>>, FALSE),
     Encode(<<Task(1, "a", FALSE)>>, FALSE),
     Encode(<<Task(2, "b", TRUE), Task(1, "a", FALSE)>>, FALSE)}

\* tasks.json as the process may also find it: any JSON array of tasks
\* decodes, whatever the ids in it.
SeqFiles ==
    InitFiles \cup {Encode(<<Task(1, "a", FALSE), Task(1, "b", TRUE)>>, FALSE),
                    Encode(<<>>, TRUE)}

\* ------------------------------------------------------------------ state
VARIABLES
    tasks,      \* var tasks []Task: the elements of the slice
    tasksNil,   \* whether the slice is nil
    lastID,     \* var lastID int
    taskMutex,  \* var taskMutex sync.Mutex: 0 when free, else the holder
    pc,         \* where each request goroutine stands in Tasks
    req,        \* the request each goroutine serves
    newTask,    \* Tasks' local newTask
    ID,         \* Tasks' local ID
    index,      \* Tasks' local i / updatedIndex (0: not found)
    jsonData,   \* Tasks' local jsonData
    resp,       \* what was written to the http.ResponseWriter
    mainpc,     \* main: "load", "serve", "exited"
    sdpc,       \* the signal goroutine of main
    listening,  \* whether the server accepts requests
    saveErr,    \* the error SaveTasksToFile returned
    file,       \* tasks.json
    bak,        \* tasks.json.bak
    nreq,       \* requests accepted so far
    pre,        \* history: tasks and lastID when the goroutine took the mutex
    created,    \* history: the ids answered by successful POSTs, in order
    loaded,     \* history: tasks and lastID as LoadTasksFromFile left them
    committed,  \* history: the collection as the last completed mutation left it
    seen,       \* history: the values `committed` took while a request was served
    onlyPosts,  \* history: every request so far was a POST with a title
    call        \* history: the last direct call of Load or Save and its result

vars == <<tasks, tasksNil, lastID, taskMutex, pc, req, newTask, ID, index,
          jsonData, resp, mainpc, sdpc, listening, saveErr, file, bak, nreq,
          pre, created, loaded, committed, seen, onlyPosts, call>>

shared == <<tasks, tasksNil, lastID>>

locals == <<newTask, ID, index, jsonData>>

lifecycle == <<mainpc, sdpc, listening, saveErr, file, bak, call>>

history == <<pre, created, loaded, committed, seen, onlyPosts>>

Snapshot == [tasks |-> tasks, lastID |-> lastID]

NoSnapshot == [tasks |-> <<>>, lastID |-> 0 - 1]

\* No direct call of Load or Save was made yet.
NoCall ==
    [op |-> "none", err |-> FALSE,
     renameOK |-> TRUE, createOK |-> TRUE, writeOK |-> TRUE,
     ncreated |-> 0, saved |-> [ok |-> FALSE, tasks |-> <<>>]]

\* The package variables as their declarations initialise them.
Fresh ==
    /\ tasks = <<>>
    /\ tasksNil = FALSE
    /\ lastID = 0
    /\ taskMutex = 0
    /\ pc = [p \in Procs |-> "idle"]
    /\ req = [p \in Procs |-> NoRequest]
    /\ newTask = [p \in Procs |-> ZeroTask]
    /\ ID = [p \in Procs |-> 0]
    /\ index = [p \in Procs |-> 0]
    /\ jsonData = [p \in Procs |-> [kind |-> "none"]]
    /\ resp = [p \in Procs |-> NoResponse]
    /\ sdpc = "wait"
    /\ saveErr = FALSE
    /\ bak = NoFile
    /\ nreq = 0
    /\ pre = [p \in Procs |-> NoSnapshot]
    /\ created = <<>>
    /\ loaded = NoSnapshot
    /\ committed = [tasks |-> <<>>, isNil |-> FALSE]
    /\ seen = [p \in Procs |-> {}]
    /\ onlyPosts = TRUE
    /\ call = NoCall

\* The process starts: main has not yet loaded tasks.json.
Init ==
    /\ Fresh
    /\ mainpc = "load"
    /\ listening = FALSE
    /\ file \in InitFiles

\* ---------------------------------------------------------------- handler
\* What Tasks decides before it touches the shared state: the method check,
\* ParseTaskID, io.ReadAll, json.Unmarshal and the title check, in the
\* order of the code.  `next` is where the goroutine goes on.
Decision(n, rs, i, t) == [next |-> n, resp |-> rs, id |-> i, task |-> t]

Reject(rs) == Decision("ret", rs, 0, ZeroTask)

\* ReadBody without the check of the title.
ReadBodyAnyTitle(r, i, n) ==
    IF r.body.kind = "readerr"
    THEN Reject(JsonError(StatusBadRequest, "Failed to read request body"))
    ELSE LET u == Unmarshal(r.body)
         IN  IF u.err
             THEN Reject(JsonError(StatusBadRequest, "Invalid JSON format"))
             ELSE Decision(n, NoResponse, i, u.task)

ReadBody(r, i, n) ==
    IF r.body.kind = "readerr"
    THEN Reject(JsonError(StatusBadRequest, "Failed to read request body"))
    ELSE LET u == Unmarshal(r.body)
         IN  IF u.err
             THEN Reject(JsonError(StatusBadRequest, "Invalid JSON format"))
             ELSE IF u.task.title = ""
             THEN Reject(JsonError(StatusBadRequest, "Task title cannot be empty"))
             ELSE Decision(n, NoResponse, i, u.task)

\* Validate without the check of the method: what is not GET or POST goes
\* on to ParseTaskID, and what is not PUT is handled as DELETE.
ValidateAnyMethod(r) ==
    IF r.method = "GET"
    THEN Decision("get_lock", NoResponse, 0, ZeroTask)
    ELSE IF r.method = "POST"
    THEN ReadBody(r, 0, "post_lock")
    ELSE LET parsed == ParseTaskID(r.path)
         IN  IF parsed.err # ""
             THEN Reject(JsonError(StatusBadRequest, parsed.err))
             ELSE IF r.method = "PUT"
             THEN ReadBody(r, parsed.id, "put_lock")
             ELSE Decision("del_lock", NoResponse, parsed.id, ZeroTask)

Validate(r) ==
    IF r.method \notin {"GET", "POST", "PUT", "DELETE"}
    THEN Reject(JsonError(StatusMethodNotAllowed, "Method Not Allowed"))
    ELSE IF r.method = "GET"
    THEN Decision("get_lock", NoResponse, 0, ZeroTask)
    ELSE IF r.method = "POST"
    THEN ReadBody(r, 0, "post_lock")
    ELSE LET parsed == ParseTaskID(r.path)
         IN  IF parsed.err # ""
             THEN Reject(JsonError(StatusBadRequest, parsed.err))
             ELSE IF r.method = "PUT"
             THEN ReadBody(r, parsed.id, "put_lock")
             ELSE Decision("del_lock", NoResponse, parsed.id, ZeroTask)

\* Whether a request is a Create that passes validation.
IsCreate(r) == r.method = "POST" /\ Validate(r).next = "post_lock"

\* Lock that does not wait for the mutex to be free.
LockNoWait(p) == taskMutex' = p

\* taskMutex.Lock()
Lock(p) == taskMutex = 0 /\ taskMutex' = p

\* A return that leaves the mutex to its holder.
UnlockForgotten(p) == taskMutex' = taskMutex

\* defer taskMutex.Unlock(), run when Tasks returns
Unlock(p) == taskMutex' = IF taskMutex = p THEN 0 ELSE taskMutex

Alive == mainpc = "serve"

\* A mutation is complete: the collection it leaves is what every request
\* being served may from now on have seen.
Commit ==
    /\ committed' = [tasks |-> tasks', isNil |-> tasksNil']
    /\ seen' = [q \in Procs |->
                  IF pc[q] = "idle" THEN seen[q] ELSE seen[q] \cup {committed'}]

At(p, label) == Alive /\ pc[p] = label

Goto(p, label) == pc' = [pc EXCEPT ![p] = label]

\* The server hands a request to a new goroutine, which runs Tasks up to the
\* point where it either answers (a rejected request) or is about to take
\* the mutex.  Goroutines have no identity: the request goes to the idle
\* one with the least index.
Accept(p, r) ==
    /\ At(p, "idle")
    /\ \A q \in Procs : q < p => pc[q] # "idle"
    /\ listening
    /\ nreq < MaxReqs
    /\ nreq' = nreq + 1
    /\ req' = [req EXCEPT ![p] = r]
    /\ LET d == Validate(r)
       IN  /\ Goto(p, d.next)
           /\ resp' = [resp EXCEPT ![p] = d.resp]
           /\ ID' = [ID EXCEPT ![p] = d.id]
           /\ newTask' = [newTask EXCEPT ![p] = d.task]
    /\ onlyPosts' = (onlyPosts /\ IsCreate(r))
    /\ seen' = [seen EXCEPT ![p] = {committed}]
    /\ UNCHANGED <<shared, taskMutex, index, jsonData, lifecycle, pre, created, loaded,
                   committed>>

\* GetMarshal without the Lock.
GetMarshalUnlocked(p) ==
    /\ At(p, "get_lock")
    /\ jsonData' = [jsonData EXCEPT ![p] = Marshal(tasks, tasksNil)]
    /\ Goto(p, "get_write")
    /\ UNCHANGED <<shared, taskMutex, req, newTask, ID, index, resp, lifecycle, nreq,
                   history>>

\* GET: taskMutex.Lock() and json.Marshal(tasks)
GetMarshal(p) ==
    /\ At(p, "get_lock")
    /\ Lock(p)
    /\ pre' = [pre EXCEPT ![p] = Snapshot]
    /\ jsonData' = [jsonData EXCEPT ![p] = Marshal(tasks, tasksNil)]
    /\ Goto(p, "get_write")
    /\ UNCHANGED <<shared, req, newTask, ID, index, resp, lifecycle, nreq,
                   created, loaded, committed, seen, onlyPosts>>

\* GET: w.Write(jsonData)
GetWrite(p) ==
    /\ At(p, "get_write")
    /\ resp' = [resp EXCEPT ![p] = Response(StatusOK, jsonData[p])]
    /\ Goto(p, "ret")
    /\ UNCHANGED <<shared, taskMutex, req, locals, lifecycle, nreq, history>>

\* PostInc that forgets the increment.
PostIncForgotten(p) ==
    /\ At(p, "post_lock")
    /\ Lock(p)
    /\ pre' = [pre EXCEPT ![p] = Snapshot]
    /\ Goto(p, "post_assign")
    /\ UNCHANGED <<shared, req, locals, resp, lifecycle, nreq,
                   created, loaded, committed, seen, onlyPosts>>

\* POST: taskMutex.Lock() and lastID++
PostInc(p) ==
    /\ At(p, "post_lock")
    /\ Lock(p)
    /\ pre' = [pre EXCEPT ![p] = Snapshot]
    /\ lastID' = lastID + 1
    /\ Goto(p, "post_assign")
    /\ UNCHANGED <<tasks, tasksNil, req, locals, resp, lifecycle, nreq,
                   created, loaded, committed, seen, onlyPosts>>

\* PostAssign that keeps the id of the request body.
PostAssignSkipped(p) ==
    /\ At(p, "post_assign")
    /\ Goto(p, "post_append")
    /\ UNCHANGED <<shared, taskMutex, req, locals, resp, lifecycle, nreq, history>>

\* POST: newTask.ID = lastID
PostAssign(p) ==
    /\ At(p, "post_assign")
    /\ newTask' = [newTask EXCEPT ![p].id = lastID]
    /\ Goto(p, "post_append")
    /\ UNCHANGED <<shared, taskMutex, req, ID, index, jsonData, resp, lifecycle, nreq, history>>

\* POST: tasks = append(tasks, newTask)
PostAppend(p) ==
    /\ At(p, "post_append")
    /\ tasks' = Append(tasks, newTask[p])
    /\ tasksNil' = FALSE
    /\ Goto(p, "post_write")
    /\ UNCHANGED <<lastID, taskMutex, req, locals, resp, lifecycle, nreq, pre, created,
                   loaded, onlyPosts>>
    /\ Commit

\* POST: w.WriteHeader(http.StatusCreated) and Encode(newTask)
PostWrite(p) ==
    /\ At(p, "post_write")
    /\ resp' = [resp EXCEPT ![p] = Response(StatusCreated, TaskBody(newTask[p]))]
    /\ created' = Append(created, newTask[p].id)
    /\ Goto(p, "ret")
    /\ UNCHANGED <<shared, taskMutex, req, locals, lifecycle, nreq, pre, loaded,
                   committed, seen, onlyPosts>>

\* PUT and DELETE: taskMutex.Lock() and the range loop up to its match (or
\* its end).
Scan(p, from, found, missing) ==
    /\ At(p, from)
    /\ Lock(p)
    /\ pre' = [pre EXCEPT ![p] = Snapshot]
    /\ index' = [index EXCEPT ![p] = FirstIndex(tasks, ID[p])]
    /\ Goto(p, IF index'[p] # 0 THEN found ELSE missing)
    /\ UNCHANGED <<shared, req, newTask, ID, jsonData, resp, lifecycle, nreq,
                   created, loaded, committed, seen, onlyPosts>>

PutScan(p) == Scan(p, "put_lock", "put_title", "put_404")

\* PUT: tasks[i].Title = newTask.Title
PutTitle(p) ==
    /\ At(p, "put_title")
    /\ tasks' = [tasks EXCEPT ![index[p]].title = newTask[p].title]
    /\ Goto(p, "put_completed")
    /\ UNCHANGED <<tasksNil, lastID, taskMutex, req, locals, resp, lifecycle, nreq, history>>

\* PutCompleted that leaves the flag as it was.
PutCompletedSkipped(p) ==
    /\ At(p, "put_completed")
    /\ Goto(p, "put_write")
    /\ UNCHANGED <<shared, taskMutex, req, locals, resp, lifecycle, nreq, pre,
                   created, loaded, onlyPosts>>
    /\ Commit

\* PutCompleted that writes the flag only when the body gave one.
PutCompletedIfGiven(p) ==
    /\ At(p, "put_completed")
    /\ tasks' = IF req[p].body.hasCompleted
                THEN [tasks EXCEPT ![index[p]].completed = newTask[p].completed]
                ELSE tasks
    /\ Goto(p, "put_write")
    /\ UNCHANGED <<tasksNil, lastID, taskMutex, req, locals, resp, lifecycle, nreq, pre,
                   created, loaded, onlyPosts>>
    /\ Commit

\* PUT: tasks[i].Completed = newTask.Completed
PutCompleted(p) ==
    /\ At(p, "put_completed")
    /\ tasks' = [tasks EXCEPT ![index[p]].completed = newTask[p].completed]
    /\ Goto(p, "put_write")
    /\ UNCHANGED <<tasksNil, lastID, taskMutex, req, locals, resp, lifecycle, nreq, pre,
                   created, loaded, onlyPosts>>
    /\ Commit

\* PUT: Encode(tasks[updatedIndex])
PutWrite(p) ==
    /\ At(p, "put_write")
    /\ resp' = [resp EXCEPT ![p] = Response(StatusOK, TaskBody(tasks[index[p]]))]
    /\ Goto(p, "ret")
    /\ UNCHANGED <<shared, taskMutex, req, locals, lifecycle, nreq, history>>

\* writeJsonError(w, http.StatusNotFound, ...) of PUT and of DELETE
WriteNotFound(p, from) ==
    /\ At(p, from)
    /\ resp' = [resp EXCEPT ![p] = NotFound(ID[p])]
    /\ Goto(p, "ret")
    /\ UNCHANGED <<shared, taskMutex, req, locals, lifecycle, nreq, history>>

PutNotFound(p) == WriteNotFound(p, "put_404")

DeleteScan(p) == Scan(p, "del_lock", "del_shift", "del_404")

\* DELETE: append(tasks[:i], tasks[i+1:]...) moves the tail down ...
DeleteShift(p) ==
    /\ At(p, "del_shift")
    /\ tasks' = ShiftDown(tasks, index[p])
    /\ Goto(p, "del_store")
    /\ UNCHANGED <<tasksNil, lastID, taskMutex, req, locals, resp, lifecycle, nreq, history>>

\* DeleteStore that recomputes the counter from the tasks that are left.
DeleteStoreLowers(p) ==
    /\ At(p, "del_store")
    /\ tasks' = DropLast(tasks)
    /\ lastID' = MaxID(DropLast(tasks), 0)
    /\ Goto(p, "del_write")
    /\ UNCHANGED <<tasksNil, taskMutex, req, locals, resp, lifecycle, nreq, pre,
                   created, loaded, onlyPosts>>
    /\ Commit

\* ... and `tasks =` stores the shorter slice
DeleteStore(p) ==
    /\ At(p, "del_store")
    /\ tasks' = DropLast(tasks)
    /\ Goto(p, "del_write")
    /\ UNCHANGED <<tasksNil, lastID, taskMutex, req, locals, resp, lifecycle, nreq, pre,
                   created, loaded, onlyPosts>>
    /\ Commit

\* DELETE: Encode(map[string]string{...})
DeleteWrite(p) ==
    /\ At(p, "del_write")
    /\ resp' = [resp EXCEPT ![p] = Response(StatusOK, DeletedBody)]
    /\ Goto(p, "ret")
    /\ UNCHANGED <<shared, taskMutex, req, locals, lifecycle, nreq, history>>

DeleteNotFound(p) == WriteNotFound(p, "del_404")

\* Tasks returns: the deferred Unlock runs and the goroutine ends.
Return(p) ==
    /\ At(p, "ret")
    /\ Unlock(p)
    /\ Goto(p, "idle")
    /\ req' = [req EXCEPT ![p] = NoRequest]
    /\ resp' = [resp EXCEPT ![p] = NoResponse]
    /\ newTask' = [newTask EXCEPT ![p] = ZeroTask]
    /\ ID' = [ID EXCEPT ![p] = 0]
    /\ index' = [index EXCEPT ![p] = 0]
    /\ jsonData' = [jsonData EXCEPT ![p] = [kind |-> "none"]]
    /\ pre' = [pre EXCEPT ![p] = NoSnapshot]
    /\ seen' = [seen EXCEPT ![p] = {}]
    /\ UNCHANGED <<shared, lifecycle, nreq, created, loaded, committed, onlyPosts>>

\* The steps of Tasks after the request was accepted.
Serve(p) ==
    \/ GetMarshal(p) \/ GetWrite(p)
    \/ PostInc(p) \/ PostAssign(p) \/ PostAppend(p) \/ PostWrite(p)
    \/ PutScan(p) \/ PutTitle(p) \/ PutCompleted(p) \/ PutWrite(p)
    \/ PutNotFound(p)
    \/ DeleteScan(p) \/ DeleteShift(p) \/ DeleteStore(p)
    \/ DeleteWrite(p) \/ DeleteNotFound(p)
    \/ Return(p)

\* ------------------------------------------------------------ persistence
\* LoadResult that empties the collection when the file cannot be opened.
LoadResultClears(content, ts, isNil, last) ==
    IF content = NoFile
    THEN [err |-> TRUE, tasks |-> <<>>, isNil |-> TRUE, lastID |-> 0]
    ELSE LET d == Decode(content, ts, isNil)
         IN  IF d.err
             THEN [err |-> TRUE, tasks |-> d.tasks, isNil |-> d.isNil, lastID |-> last]
             ELSE [err |-> FALSE, tasks |-> d.tasks, isNil |-> d.isNil,
                   lastID |-> MaxID(d.tasks, 0)]

\* LoadResult without `lastID = 0`: the maximum starts from the old counter.
LoadResultKeepsCounter(content, ts, isNil, last) ==
    IF content = NoFile
    THEN [err |-> TRUE, tasks |-> ts, isNil |-> isNil, lastID |-> last]
    ELSE LET d == Decode(content, ts, isNil)
         IN  IF d.err
             THEN [err |-> TRUE, tasks |-> d.tasks, isNil |-> d.isNil, lastID |-> last]
             ELSE [err |-> FALSE, tasks |-> d.tasks, isNil |-> d.isNil,
                   lastID |-> MaxID(d.tasks, last)]

\* LoadTasksFromFile as a function of the file and of the state it finds.
LoadResult(content, ts, isNil, last) ==
    IF content = NoFile
    THEN [err |-> TRUE, tasks |-> ts, isNil |-> isNil, lastID |-> last]
    ELSE LET d == Decode(content, ts, isNil)
         IN  IF d.err
             THEN [err |-> TRUE, tasks |-> d.tasks, isNil |-> d.isNil, lastID |-> last]
             ELSE [err |-> FALSE, tasks |-> d.tasks, isNil |-> d.isNil,
                   lastID |-> MaxID(d.tasks, 0)]

\* Load that goes on to serve whatever LoadTasksFromFile returned.
LoadIgnoresError ==
    /\ mainpc = "load"
    /\ LET l == LoadResult(file, tasks, tasksNil, lastID)
       IN  /\ tasks' = l.tasks
           /\ tasksNil' = l.isNil
           /\ lastID' = l.lastID
           /\ mainpc' = "serve"
           /\ listening' = TRUE
           /\ loaded' = IF l.err THEN loaded
                        ELSE [tasks |-> l.tasks, lastID |-> l.lastID]
           /\ committed' = [tasks |-> l.tasks, isNil |-> l.isNil]
    /\ UNCHANGED call
    /\ UNCHANGED <<taskMutex, pc, req, locals, resp, sdpc, saveErr, file, bak,
                   nreq, pre, created, seen, onlyPosts>>

\* main up to ListenAndServe: load tasks.json, log.Fatalf when that fails.
Load ==
    /\ mainpc = "load"
    /\ LET l == LoadResult(file, tasks, tasksNil, lastID)
       IN  /\ tasks' = l.tasks
           /\ tasksNil' = l.isNil
           /\ lastID' = l.lastID
           /\ mainpc' = IF l.err THEN "fatal" ELSE "serve"
           /\ listening' = ~l.err
           /\ loaded' = IF l.err THEN loaded
                        ELSE [tasks |-> l.tasks, lastID |-> l.lastID]
           /\ committed' = [tasks |-> l.tasks, isNil |-> l.isNil]
    /\ UNCHANGED call
    /\ UNCHANGED <<taskMutex, pc, req, locals, resp, sdpc, saveErr, file, bak,
                   nreq, pre, created, seen, onlyPosts>>

\* SaveResult that creates the file over the old one without renaming it.
SaveResultNoBackup(content, backup, ts, isNil, renameOK, createOK, writeOK, written) ==
    IF ~createOK THEN [err |-> TRUE, file |-> content, bak |-> backup]
    ELSE IF ~writeOK THEN [err |-> TRUE, file |-> written, bak |-> backup]
    ELSE [err |-> FALSE, file |-> Encode(ts, isNil), bak |-> backup]

\* SaveResult that returns the error of a failed rename.
SaveResultStrict(content, backup, ts, isNil, renameOK, createOK, writeOK, written) ==
    IF content # NoFile /\ ~renameOK THEN [err |-> TRUE, file |-> content, bak |-> backup]
    ELSE LET f1 == NoFile
             b1 == IF content # NoFile THEN content ELSE backup
         IN  IF ~createOK THEN [err |-> TRUE, file |-> f1, bak |-> b1]
             ELSE IF ~writeOK THEN [err |-> TRUE, file |-> written, bak |-> b1]
             ELSE [err |-> FALSE, file |-> Encode(ts, isNil), bak |-> b1]

\* SaveTasksToFile as a function of the two files, of the slice it reads and
\* of which of its system calls succeed: os.Stat / os.Rename (a failure is
\* only logged), os.Create, and the write made by encoder.Encode.  A write
\* that fails leaves `written`: nothing, or a part of the text.
SaveResult(content, backup, ts, isNil, renameOK, createOK, writeOK, written) ==
    LET renamed == content # NoFile /\ renameOK
        f1 == IF renamed THEN NoFile ELSE content
        b1 == IF renamed THEN content ELSE backup
    IN  IF ~createOK THEN [err |-> TRUE, file |-> f1, bak |-> b1]
        ELSE IF ~writeOK THEN [err |-> TRUE, file |-> written, bak |-> b1]
        ELSE [err |-> FALSE, file |-> Encode(ts, isNil), bak |-> b1]

\* <-sigChan
Signal ==
    /\ Alive
    /\ sdpc = "wait"
    /\ sdpc' = "save"
    /\ UNCHANGED call
    /\ UNCHANGED <<shared, taskMutex, pc, req, locals, resp, mainpc, listening,
                   saveErr, file, bak, nreq, history>>

\* SaveTasksToFile("tasks.json"), called by the signal goroutine.  It reads
\* `tasks` without taking the mutex, whatever the handlers are doing.  At
\* shutdown the file system either lets the save through or refuses the
\* create.
Save ==
    /\ Alive
    /\ sdpc = "save"
    /\ \E createOK \in BOOLEAN :
          LET s == SaveResult(file, bak, tasks, tasksNil, TRUE, createOK, TRUE, EmptyFile)
          IN  /\ file' = s.file
              /\ bak' = s.bak
              /\ saveErr' = s.err
    /\ sdpc' = "shutdown"
    /\ UNCHANGED call
    /\ UNCHANGED <<shared, taskMutex, pc, req, locals, resp, mainpc, listening,
                   nreq, history>>

\* srv.Shutdown(ctx) closes the listeners ...
Shutdown ==
    /\ Alive
    /\ sdpc = "shutdown"
    /\ listening' = FALSE
    /\ sdpc' = "drain"
    /\ UNCHANGED call
    /\ UNCHANGED <<shared, taskMutex, pc, req, locals, resp, mainpc, saveErr,
                   file, bak, nreq, history>>

\* ... and returns once no request is in flight; close(doneChan)
Drained ==
    /\ Alive
    /\ sdpc = "drain"
    /\ \A p \in Procs : pc[p] = "idle"
    /\ sdpc' = "done"
    /\ UNCHANGED call
    /\ UNCHANGED <<shared, taskMutex, pc, req, locals, resp, mainpc, listening,
                   saveErr, file, bak, nreq, history>>

\* ... or the context times out first: log.Fatalf ends the process, and with
\* it every goroutine still serving a request.
ShutdownTimeout ==
    /\ Alive
    /\ sdpc = "drain"
    /\ \E p \in Procs : pc[p] # "idle"
    /\ mainpc' = "fatal"
    /\ pc' = [p \in Procs |-> IF pc[p] = "idle" THEN "idle" ELSE "killed"]
    /\ req' = [p \in Procs |-> NoRequest]
    /\ resp' = [p \in Procs |-> NoResponse]
    /\ newTask' = [p \in Procs |-> ZeroTask]
    /\ ID' = [p \in Procs |-> 0]
    /\ index' = [p \in Procs |-> 0]
    /\ jsonData' = [p \in Procs |-> [kind |-> "none"]]
    /\ pre' = [p \in Procs |-> NoSnapshot]
    /\ seen' = [p \in Procs |-> {}]
    /\ UNCHANGED call
    /\ UNCHANGED <<shared, taskMutex, sdpc, listening, saveErr, file, bak, nreq,
                   created, loaded, committed, onlyPosts>>

\* <-doneChan, and main returns
MainExit ==
    /\ Alive
    /\ sdpc = "done"
    /\ mainpc' = "exited"
    /\ UNCHANGED call
    /\ UNCHANGED <<shared, taskMutex, pc, req, locals, resp, sdpc, listening,
                   saveErr, file, bak, nreq, history>>

Next ==
    \/ Load
    \/ \E p \in Procs : \E r \in Requests : Accept(p, r)
    \/ \E p \in Procs : Serve(p)
    \/ Signal \/ Save
    \/ Shutdown \/ Drained \/ ShutdownTimeout \/ MainExit

Spec == Init /\ [][Next]_vars

\* The running server with a scheduler that lets every request goroutine
\* run: a goroutine that can take a step of Tasks takes one.  No signal
\* arrives: the steps of Tasks do not depend on where the shutdown stands,
\* and main does not return before srv.Shutdown saw every request end.
NextLive ==
    \/ Load
    \/ \E p \in Procs : \E r \in Requests : Accept(p, r)
    \/ \E p \in Procs : Serve(p)

Fairness == \A p \in Procs : WF_vars(Serve(p))

SpecLive == Init /\ [][NextLive]_vars /\ Fairness

\* One client, one request at a time, and no signal: the handler alone, on
\* every request of SeqRequests.
NextSeq ==
    \/ Load
    \/ \E r \in SeqRequests : Accept(1, r)
    \/ Serve(1)

InitSeq ==
    /\ Fresh
    /\ mainpc = "load"
    /\ listening = FALSE
    /\ file \in SeqFiles

SpecSeq == InitSeq /\ [][NextSeq]_vars

\* -------------------------------------------------- direct calls (tests)
\* The test binary: main never runs, the package variables are as their
\* declarations leave them, and the tests call Tasks, LoadTasksFromFile and
\* SaveTasksToFile themselves, one call at a time, and assign `tasks`.
TestFiles ==
    {NoFile,
     Encode(<<Task(1, "a", FALSE), Task(2, "b", TRUE), Task(123, "a", FALSE)>>, FALSE)}

\* The slices the tests assign to `tasks` (nil: `tasks = nil`).
TestCollections ==
    {[tasks |-> <<>>, isNil |-> TRUE],
     [tasks |-> <<Task(2, "b", TRUE)>>, isNil |-> FALSE],
     [tasks |-> <<Task(1, "a", FALSE), Task(2, "b", TRUE)>>, isNil |-> FALSE]}

TestRequests == {Request("POST", PathTasks, BodyA)}

InitTest ==
    /\ Fresh
    /\ mainpc = "serve"
    /\ listening = TRUE
    /\ file \in TestFiles

Quiet == Alive /\ \A p \in Procs : pc[p] = "idle"

Called(op, err, renameOK, createOK, writeOK, saved) ==
    [op |-> op, err |-> err,
     renameOK |-> renameOK, createOK |-> createOK, writeOK |-> writeOK,
     ncreated |-> IF op = "load" THEN Len(created) ELSE 0, saved |-> saved]

\* tasks = []Task{...}, tasks = nil
SetTasks(c) ==
    /\ Quiet
    /\ tasks' = c.tasks
    /\ tasksNil' = c.isNil
    /\ committed' = c
    /\ call' = Called("set", FALSE, TRUE, TRUE, TRUE, call.saved)
    /\ UNCHANGED <<lastID, taskMutex, pc, req, locals, resp, mainpc, sdpc, listening,
                   saveErr, file, bak, nreq, pre, created, loaded, seen, onlyPosts>>

\* err := LoadTasksFromFile(tempFile)
LoadCall ==
    /\ Quiet
    /\ LET l == LoadResult(file, tasks, tasksNil, lastID)
       IN  /\ tasks' = l.tasks
           /\ tasksNil' = l.isNil
           /\ lastID' = l.lastID
           /\ committed' = [tasks |-> l.tasks, isNil |-> l.isNil]
           /\ call' = Called("load", l.err, TRUE, TRUE, TRUE, call.saved)
    /\ UNCHANGED <<taskMutex, pc, req, locals, resp, mainpc, sdpc, listening,
                   saveErr, file, bak, nreq, pre, created, loaded, seen, onlyPosts>>

\* err := SaveTasksToFile(tempFile), on a file system that lets the
\* rename, the create and the write succeed or fail; a write that fails
\* leaves the file as os.Create made it.
SaveCall(renameOK, createOK, writeOK) ==
    /\ Quiet
    /\ file = NoFile => renameOK
    /\ ~createOK => writeOK
    /\ LET s == SaveResult(file, bak, tasks, tasksNil, renameOK, createOK, writeOK, EmptyFile)
       IN  /\ file' = s.file
           /\ bak' = s.bak
           /\ saveErr' = s.err
           /\ call' = Called("save", s.err, renameOK, createOK, writeOK,
                             IF s.err THEN [ok |-> FALSE, tasks |-> <<>>]
                             ELSE [ok |-> TRUE, tasks |-> tasks])
    /\ UNCHANGED <<shared, taskMutex, pc, req, locals, resp, mainpc, sdpc, listening,
                   nreq, history>>

NextTest ==
    \/ \E c \in TestCollections : SetTasks(c)
    \/ LoadCall
    \/ \E renameOK \in BOOLEAN : \E createOK \in BOOLEAN : \E writeOK \in BOOLEAN :
          SaveCall(renameOK, createOK, writeOK)
    \/ \E r \in TestRequests : Accept(1, r)
    \/ PostInc(1) \/ PostAssign(1) \/ PostAppend(1) \/ PostWrite(1) \/ Return(1)

SpecTest == InitTest /\ [][NextTest]_vars

\* Tasks called by a test with any path, as httptest.NewRequest builds it:
\* no ServeMux stands between the request and the handler.
SegOther == <<"x">>

DirectRequests ==
    {Request(m, p, b) :
        m \in {"GET", "POST", "PUT", "DELETE"},
        p \in {PathTasks, PathTask(<<"1">>), <<SegOther, <<"1">>>>,
               <<SegTasks, <<"1">>, <<"2">>>>},
        b \in {BodyEmpty, BodyB}}

NextDirect ==
    \/ \E c \in TestCollections : SetTasks(c)
    \/ \E r \in DirectRequests : Accept(1, r)
    \/ Serve(1)

SpecDirect == InitTest /\ [][NextDirect]_vars

\* ------------------------------------------------- faults of the files
\* tasks.json as a test may find it before anything was saved: absent, no
\* JSON at all, or an array of tasks in which one id is a string.
FaultFiles ==
    {NoFile, Garbage,
     BadlyTyped(<<Task(7, "c", TRUE)>>, 1),
     BadlyTyped(<<Task(1, "a", FALSE), Task(2, "b", TRUE)>>, 2)}

InitFaults ==
    /\ Fresh
    /\ mainpc = "serve"
    /\ listening = TRUE
    /\ file \in FaultFiles

\* Loads and Saves called one after the other on the same path, each Save
\* on a file system that may refuse any of its steps.
NextFaults ==
    \/ \E c \in TestCollections : SetTasks(c)
    \/ LoadCall
    \/ \E renameOK \in BOOLEAN : \E createOK \in BOOLEAN : \E writeOK \in BOOLEAN :
          SaveCall(renameOK, createOK, writeOK)

SpecFaults == InitFaults /\ [][NextFaults]_vars

\* -------------------------------------------------------------- restarts
\* The process is started again after it ended: the package variables are
\* initialised anew, tasks.json and tasks.json.bak are what the last run
\* left.  `created` goes on across the runs: it is the history of the ids
\* the clients were given.  No further run starts once MaxReqs tasks were
\* created or the counter has passed MaxReqs.
Restart ==
    /\ mainpc \in {"exited", "fatal"}
    /\ Len(created) < MaxReqs
    /\ lastID <= MaxReqs
    /\ tasks' = <<>>
    /\ tasksNil' = FALSE
    /\ lastID' = 0
    /\ taskMutex' = 0
    /\ pc' = [p \in Procs |-> "idle"]
    /\ req' = [p \in Procs |-> NoRequest]
    /\ newTask' = [p \in Procs |-> ZeroTask]
    /\ ID' = [p \in Procs |-> 0]
    /\ index' = [p \in Procs |-> 0]
    /\ jsonData' = [p \in Procs |-> [kind |-> "none"]]
    /\ resp' = [p \in Procs |-> NoResponse]
    /\ mainpc' = "load"
    /\ sdpc' = "wait"
    /\ listening' = FALSE
    /\ saveErr' = FALSE
    /\ nreq' = 0
    /\ pre' = [p \in Procs |-> NoSnapshot]
    /\ loaded' = NoSnapshot
    /\ committed' = [tasks |-> <<>>, isNil |-> FALSE]
    /\ seen' = [p \in Procs |-> {}]
    /\ onlyPosts' = TRUE
    /\ UNCHANGED <<file, bak, created, call>>

RestartRequests ==
    {Request("POST", PathTasks, BodyA)}
    \cup {Request("DELETE", PathTask(seg), BodyEmpty) : seg \in {<<"1">>, <<"2">>}}

\* The operator stops a quiet server: the signal arrives when no request
\* is in flight, and the client sends nothing after it.
QuietSignal ==
    /\ \A p \in Procs : pc[p] = "idle"
    /\ Signal

RequestBeforeSignal(r) ==
    /\ sdpc = "wait"
    /\ Accept(1, r)

\* One client, one request at a time, over several runs of the process,
\* each run ended by a signal to the quiet server.
NextRestart ==
    \/ Load
    \/ \E r \in RestartRequests : RequestBeforeSignal(r)
    \/ PostInc(1) \/ PostAssign(1) \/ PostAppend(1) \/ PostWrite(1)
    \/ DeleteScan(1) \/ DeleteShift(1) \/ DeleteStore(1) \/ DeleteWrite(1)
    \/ DeleteNotFound(1)
    \/ Return(1)
    \/ QuietSignal \/ Save
    \/ Shutdown \/ Drained \/ MainExit
    \/ Restart

SpecRestart == Init /\ [][NextRestart]_vars

\* ----------------------------------------------------------------- claims
\* The response of goroutine p is written and Tasks is about to return.
Served(p) == At(p, "ret")

AllIdle == \A p \in Procs : pc[p] = "idle"

\* What a request asks for, read off the request itself.
HasTitle(b) == b.kind = "obj" /\ b.hasTitle /\ b.title # ""

Titleless(r) ==
    /\ r.method \in {"POST", "PUT"}
    /\ r.method = "PUT" => ParseTaskID(r.path).err = ""
    /\ r.body.kind = "obj"
    /\ ~r.body.hasTitle \/ r.body.title = ""

CompletedOf(b) == b.hasCompleted /\ b.completed

IsUpdate(r) == r.method = "PUT" /\ ParseTaskID(r.path).err = "" /\ HasTitle(r.body)

IsDelete(r) == r.method = "DELETE" /\ ParseTaskID(r.path).err = ""

TargetID(r) == ParseTaskID(r.path).id

NoTaskWithID(ts, id) == \A i \in 1..Len(ts) : ts[i].id # id

FirstMatch(ts, id, i) == ts[i].id = id /\ \A j \in 1..(i - 1) : ts[j].id # id

\* C1: the ids answered by the successful POSTs of one process run are
\* strictly increasing in the order of the answers (so pairwise distinct),
\* and each is the counter as the POST found it under the mutex, plus 1.
C1_CreatedIdsIncrease ==
    /\ \A i \in 1..Len(created) : \A j \in 1..Len(created) :
          i < j => created[i] < created[j]
    /\ \A p \in Procs :
          (Served(p) /\ resp[p].status = StatusCreated) =>
             /\ resp[p].body.task.id = pre[p].lastID + 1
             /\ created[Len(created)] = resp[p].body.task.id

C1_Witness ==
    /\ Len(created) >= 2
    /\ \E p \in Procs : Served(p) /\ resp[p].status = StatusCreated

\* C2: as long as every request was a POST with a title, every one of them
\* is answered 201, the tasks loaded stay in front, the k-th new task has the
\* id start + k, and once all N requests are served the collection has gained
\* exactly N tasks.
C2_ConcurrentCreates ==
    (onlyPosts /\ mainpc \in {"serve", "exited"}) =>
       /\ \A p \in Procs : Served(p) => resp[p].status = StatusCreated
       /\ Len(tasks) >= Len(loaded.tasks)
       /\ SubSeq(tasks, 1, Len(loaded.tasks)) = loaded.tasks
       /\ \A k \in 1..(Len(tasks) - Len(loaded.tasks)) :
             tasks[Len(loaded.tasks) + k].id = loaded.lastID + k
       /\ AllIdle => Len(tasks) = Len(loaded.tasks) + nreq /\ Len(created) = nreq

C2_Witness ==
    /\ onlyPosts
    /\ \E p \in Procs : \E q \in Procs :
          /\ p # q
          /\ Served(p) /\ resp[p].status = StatusCreated
          /\ pc[q] = "post_lock"

\* The labels from which a handler's next step reads or writes tasks or
\* lastID after the step that took the mutex.
AccessLabels ==
    {"post_assign", "post_append", "put_title", "put_completed", "put_write",
     "del_shift", "del_store"}

\* The goroutine of main, which runs LoadTasksFromFile, and the one waiting for
\* the signal, which runs SaveTasksToFile: neither is a request goroutine.
MainThread == NumProcs + 1

SignalThread == NumProcs + 2

\* C3: whoever is about to read or write tasks or lastID (a handler, Load,
\* Save) holds taskMutex, and at most one operation is inside its locked
\* region.
C3_AccessUnderLock ==
    /\ \A p \in Procs : (Alive /\ pc[p] \in AccessLabels) => taskMutex = p
    /\ Cardinality({p \in Procs : pre[p] # NoSnapshot}) <= 1
    /\ mainpc = "load" => taskMutex = MainThread
    /\ (Alive /\ sdpc = "save") => taskMutex = SignalThread

\* The labels at which a mutation is half applied.
MidMutation == {"put_completed", "del_store"}

\* The labels between the first and the last write of a mutation.
Mutating == {"post_assign", "post_append", "put_title", "put_completed",
             "del_shift", "del_store"}

\* C4: the body of every GET is the collection as one completed mutation
\* (or the load) left it, at a moment between the request's start and its
\* answer; no two mutations are in progress together; outside a mutation
\* the slice is the collection the last mutation completed.
C4_Linearizable ==
    /\ \A p \in Procs :
          (Served(p) /\ req[p].method = "GET") =>
             /\ resp[p].status = StatusOK
             /\ \E v \in seen[p] : resp[p].body = Marshal(v.tasks, v.isNil)
    /\ Cardinality({p \in Procs : Alive /\ pc[p] \in Mutating}) <= 1
    /\ (Alive /\ \A p \in Procs : pc[p] \notin MidMutation) =>
          committed = [tasks |-> tasks, isNil |-> tasksNil]

C4_Witness ==
    \E p \in Procs :
       /\ Served(p) /\ req[p].method = "GET"
       /\ Cardinality(seen[p]) >= 2

\* C5: SaveTasksToFile is not started before the server stopped accepting
\* and the requests in flight are finished, and once it was called no
\* handler runs.
C5_SaveAfterDrain ==
    /\ (Alive /\ sdpc = "save") => ~listening /\ AllIdle
    /\ (Alive /\ sdpc \in {"shutdown", "drain", "done"}) => AllIdle

\* C6: every step of a goroutine serving a POST or a PUT /tasks/{id}
\* whose title is empty or missing leaves tasks and lastID as they are, and
\* its first step answers 400 "Task title cannot be empty".
C6_EmptyTitleRejected ==
    [][\A p \in Procs :
          (pc'[p] # pc[p] /\ (Titleless(req[p]) \/ Titleless(req'[p]))) =>
             /\ tasks' = tasks /\ tasksNil' = tasksNil /\ lastID' = lastID
             /\ pc[p] = "idle" =>
                   /\ pc'[p] = "ret"
                   /\ resp'[p] = JsonError(StatusBadRequest, "Task title cannot be empty")
      ]_vars

C6_Witness ==
    \E p \in Procs :
       /\ Served(p) /\ Titleless(req[p]) /\ req[p].method = "PUT"
       /\ ~req[p].body.hasTitle
       /\ ~NoTaskWithID(tasks, TargetID(req[p]))
       /\ resp[p].status = StatusBadRequest

\* C7: a PUT or DELETE whose id no task had when the handler took the mutex
\* is answered 404, and tasks and lastID are what they were then.
C7_NotFoundUnchanged ==
    \A p \in Procs :
       (Served(p) /\ (IsUpdate(req[p]) \/ IsDelete(req[p]))
                  /\ NoTaskWithID(pre[p].tasks, TargetID(req[p]))) =>
          /\ resp[p].status = StatusNotFound
          /\ tasks = pre[p].tasks
          /\ lastID = pre[p].lastID

C7_Witness ==
    \E p \in Procs :
       /\ Served(p) /\ IsDelete(req[p])
       /\ pre[p].tasks # <<>>
       /\ NoTaskWithID(pre[p].tasks, TargetID(req[p]))
       /\ resp[p].status = StatusNotFound

\* C8: a POST with a title raises lastID by 1, appends one task (id: the new
\* lastID, title and completed from the body, completed false when absent,
\* the body's id ignored) behind the unchanged old ones, and answers 201
\* with that task.
C8_CreateAppends ==
    \A p \in Procs :
       (Served(p) /\ req[p].method = "POST" /\ HasTitle(req[p].body)) =>
          LET t == Task(pre[p].lastID + 1, req[p].body.title, CompletedOf(req[p].body))
          IN  /\ resp[p] = Response(StatusCreated, TaskBody(t))
              /\ lastID = pre[p].lastID + 1
              /\ tasks = Append(pre[p].tasks, t)

C8_Witness ==
    \E p \in Procs :
       /\ Served(p) /\ req[p].method = "POST" /\ req[p].body = BodyB
       /\ pre[p].tasks # <<>>
       /\ resp[p].status = StatusCreated

\* C9: a PUT that finds its id changes the title and the completed flag of
\* the first task with that id and nothing else (same id, same place, same
\* length, same lastID), answers 200 with the task as it now is, and the
\* body of a GET is the collection as it now is.
C9_UpdateInPlace ==
    /\ \A p \in Procs :
          (Served(p) /\ IsUpdate(req[p])) =>
             \A i \in 1..Len(pre[p].tasks) :
                FirstMatch(pre[p].tasks, TargetID(req[p]), i) =>
                   LET t == Task(pre[p].tasks[i].id, req[p].body.title,
                                 CompletedOf(req[p].body))
                   IN  /\ resp[p] = Response(StatusOK, TaskBody(t))
                       /\ tasks = [pre[p].tasks EXCEPT ![i] = t]
                       /\ lastID = pre[p].lastID
    /\ \A p \in Procs :
          (Served(p) /\ req[p].method = "GET") =>
             resp[p].body = Marshal(tasks, tasksNil)

C9_Witness ==
    \E p \in Procs :
       /\ Served(p) /\ IsUpdate(req[p]) /\ resp[p].status = StatusOK
       /\ Len(tasks) >= 2
       /\ \E i \in 1..Len(tasks) :
             /\ tasks[i].title # pre[p].tasks[i].title
             /\ tasks[i].completed # pre[p].tasks[i].completed

\* C10: a DELETE that finds its id removes the first task with that id, keeps
\* the others as they were and in their order, leaves lastID alone and
\* answers 200 with the success message; the slice it leaves is not nil,
\* and a GET of an empty, non-nil slice answers the empty list.
C10_DeleteRemovesOne ==
    /\ \A p \in Procs :
          (Served(p) /\ IsDelete(req[p])) =>
             \A i \in 1..Len(pre[p].tasks) :
                FirstMatch(pre[p].tasks, TargetID(req[p]), i) =>
                   /\ resp[p] = Response(StatusOK, DeletedBody)
                   /\ tasks = RemoveAt(pre[p].tasks, i)
                   /\ ~tasksNil
                   /\ lastID = pre[p].lastID
    /\ \A p \in Procs :
          (Served(p) /\ req[p].method = "GET" /\ tasks = <<>> /\ ~tasksNil) =>
             resp[p] = Response(StatusOK, [kind |-> "list", list |-> <<>>])

C10_Witness ==
    \E p \in Procs :
       /\ Served(p) /\ IsDelete(req[p]) /\ resp[p].status = StatusOK
       /\ Len(pre[p].tasks) >= 2
       /\ pre[p].tasks[1].id = TargetID(req[p])

\* The ids of the tasks main loaded, and of the first n tasks created since.
LoadedIDs == {loaded.tasks[k].id : k \in 1..Len(loaded.tasks)}

CreatedIDs(n) == {created[k] : k \in 1..n}

\* C11: the counter never falls below an id that a task of this run had
\* (loaded or created), whether the task is still there or was deleted, and
\* no Create is answered with an id that a task of this run had before it.
C11_NoIdReuse ==
    /\ \A id \in LoadedIDs \cup CreatedIDs(Len(created)) : id <= lastID
    /\ \A k \in 1..Len(created) :
          created[k] \notin LoadedIDs \cup CreatedIDs(k - 1)

C11_Witness ==
    \E p \in Procs :
       /\ Served(p) /\ resp[p].status = StatusCreated
       /\ pre[p].lastID \in LoadedIDs \cup CreatedIDs(Len(created) - 1)
       /\ NoTaskWithID(tasks, pre[p].lastID)

C13_IdsDistinct ==
    \A i \in 1..Len(tasks) : \A j \in 1..Len(tasks) :
       i # j => tasks[i].id # tasks[j].id

\* m is what the loop of LoadTasksFromFile leaves in lastID for the tasks ts:
\* their largest id, or 0 when none of them is above 0.
IsCounterOf(m, ts) ==
    /\ \A k \in 1..Len(ts) : ts[k].id <= m
    /\ m = 0 \/ \E k \in 1..Len(ts) : ts[k].id = m

\* The file holds the JSON text of the tasks ts.
Holds(content, ts) == content.kind = "json" /\ content.elems = ts

SaveStep ==
    \E renameOK \in BOOLEAN : \E createOK \in BOOLEAN : \E writeOK \in BOOLEAN :
       SaveCall(renameOK, createOK, writeOK)

\* C14: a Load that succeeds leaves in tasks the array of the file and in
\* lastID the largest id of that array (0 when it has none), whatever lastID
\* was, and the first Create after it is answered with that largest id plus 1.
C14_LoadSetsCounter ==
    [][/\ (LoadCall /\ ~call'.err) =>
             /\ Holds(file, tasks')
             /\ IsCounterOf(lastID', file.elems)
       /\ (PostWrite(1) /\ call.op = "load" /\ ~call.err
                        /\ Len(created) = call.ncreated) =>
             IsCounterOf(resp'[1].body.task.id - 1, file.elems)
      ]_vars

C14_Witness ==
    /\ call.op = "load" /\ ~call.err
    /\ Len(created) = call.ncreated + 1
    /\ Served(1) /\ resp[1].status = StatusCreated
    /\ resp[1].body.task.id = 124

C16_BackupAlways ==
    [][(SaveStep /\ ~call'.err /\ file # NoFile) =>
          /\ Holds(file', tasks)
          /\ bak' = file
      ]_vars

\* C16: a Save that succeeds where a file existed leaves the collection in
\* the file; the backup holds the file's previous content when the rename
\* succeeded, and is what it was when the rename failed.
C16_BackupWhenRenamed ==
    [][(SaveStep /\ ~call'.err /\ file # NoFile) =>
          /\ Holds(file', tasks)
          /\ bak' = IF call'.renameOK THEN file ELSE bak
      ]_vars

C16_Witness ==
    /\ call.op = "save" /\ ~call.err /\ call.renameOK
    /\ file.kind = "json" /\ bak.kind = "json"
    /\ file # bak
    /\ Holds(file, tasks)

\* C17: a Load where no file exists returns an error and leaves tasks and
\* lastID as they were.
C17_LoadMissingFile ==
    [][(LoadCall /\ file = NoFile) =>
          /\ call'.err
          /\ tasks' = tasks /\ tasksNil' = tasksNil /\ lastID' = lastID
      ]_vars

C17_Witness ==
    /\ call.op = "load" /\ call.err
    /\ file = NoFile
    /\ tasks # <<>> /\ lastID > 0

\* C18: Save returns an error exactly when the create or the write fails; a
\* rename that fails changes nothing to that, and when create and write
\* succeed the file holds the collection.
C18_SaveErrorIff ==
    [][\A renameOK \in BOOLEAN : \A createOK \in BOOLEAN : \A writeOK \in BOOLEAN :
          SaveCall(renameOK, createOK, writeOK) =>
             /\ call'.err <=> ~(createOK /\ writeOK)
             /\ saveErr' = call'.err
             /\ (createOK /\ writeOK) => Holds(file', tasks)
      ]_vars

C18_Witness ==
    /\ call.op = "save" /\ ~call.err /\ ~call.renameOK
    /\ Holds(file, tasks)
    /\ tasks # <<>>

\* The labels at which the goroutine is about to write its response, or has
\* written it and not yet returned.
ResponseLabels ==
    {"get_write", "post_write", "put_write", "put_404", "del_write", "del_404", "ret"}

\* C19: no goroutine holds taskMutex while it writes its response: from
\* the write of the response to the return of Tasks the mutex is not its.
C19_NoIOUnderLock ==
    \A p \in Procs : (Alive /\ pc[p] \in ResponseLabels) => taskMutex # p

\* Titles, among those of the requests, that strings.TrimSpace empties.
IsBlank(t) == t \in {" ", "  "}

BlankTitled(r) ==
    /\ r.method \in {"POST", "PUT"}
    /\ r.method = "PUT" => ParseTaskID(r.path).err = ""
    /\ r.body.kind = "obj" /\ r.body.hasTitle
    /\ IsBlank(r.body.title)

\* C20: a POST or PUT whose title is only whitespace is answered 400, and no
\* task of the collection has such a title.
C20_BlankTitleRejected ==
    /\ \A p \in Procs :
          (Served(p) /\ BlankTitled(req[p])) => resp[p].status = StatusBadRequest
    /\ \A k \in 1..Len(tasks) : ~IsBlank(tasks[k].title)

\* A request whose method is none of the four that Tasks serves.
OtherMethod(r) == r.method \notin {"", "GET", "POST", "PUT", "DELETE"}

\* C21: every step of a goroutine serving a request with another method
\* than GET, POST, PUT, DELETE leaves tasks, lastID and the mutex as they
\* are, and its first step answers 405 "Method Not Allowed".
C21_MethodNotAllowed ==
    [][\A p \in Procs :
          (pc'[p] # pc[p] /\ (OtherMethod(req[p]) \/ OtherMethod(req'[p]))) =>
             /\ tasks' = tasks /\ tasksNil' = tasksNil /\ lastID' = lastID
             /\ taskMutex' = taskMutex
             /\ pc[p] = "idle" =>
                   /\ pc'[p] = "ret"
                   /\ resp'[p] = JsonError(StatusMethodNotAllowed, "Method Not Allowed")
      ]_vars

C21_Witness ==
    \E p \in Procs :
       /\ Served(p) /\ req[p].method = "HEAD"
       /\ req[p].path = PathTask(<<"1">>)
       /\ ~NoTaskWithID(tasks, 1)
       /\ resp[p].status = StatusMethodNotAllowed

\* The path is /tasks, and the path is /tasks/ followed by one more segment.
OnCollection(r) == r.path = PathTasks

OnItem(r) == Len(r.path) = 2 /\ r.path[1] = SegTasks

\* A verb sent to the path of the other verbs.
WrongPath(r) ==
    \/ r.method \in {"GET", "POST"} /\ OnItem(r)
    \/ r.method \in {"PUT", "DELETE"} /\ OnCollection(r)

\* C22: a GET or POST on /tasks/{id}, and a PUT or DELETE on /tasks, is
\* answered 405 without the mutex being taken, and the collection is the one
\* the last completed mutation left.
C22_VerbOnItsPath ==
    \A p \in Procs :
       (Served(p) /\ WrongPath(req[p])) =>
          /\ resp[p].status = StatusMethodNotAllowed
          /\ pre[p] = NoSnapshot
          /\ seen[p] = {[tasks |-> tasks, isNil |-> tasksNil]}

\* A segment that is the decimal text of a positive integer.
IsPositive(seg) ==
    /\ seg # <<>>
    /\ \A i \in 1..Len(seg) : IsDigit(seg[i])
    /\ \E i \in 1..Len(seg) : seg[i] # "0"

\* C23: a PUT or DELETE on /tasks/{id} whose id segment is not the text of
\* a positive integer is answered 400 "Invalid Task ID" and never takes
\* the mutex to search the collection.
C23_PositiveIdOnly ==
    \A p \in Procs :
       (Served(p) /\ req[p].method \in {"PUT", "DELETE"} /\ OnItem(req[p])
                  /\ ~IsPositive(req[p].path[2])) =>
          /\ resp[p] = JsonError(StatusBadRequest, "Invalid Task ID")
          /\ pre[p] = NoSnapshot

\* C24: a PUT or DELETE whose path is not "tasks" followed by one segment
\* is answered 400 "Invalid URL" and never takes the mutex.
C24_MalformedPath ==
    \A p \in Procs :
       (Served(p) /\ req[p].method \in {"PUT", "DELETE"} /\ ~OnItem(req[p])) =>
          /\ resp[p] = JsonError(StatusBadRequest, "Invalid URL")
          /\ pre[p] = NoSnapshot

\* C25: in a run whose Load did not succeed the process is at its start or
\* ended by log.Fatalf: it never listens, no request was accepted and no
\* goroutine runs Tasks.
C25_NoServingAfterFailedLoad ==
    loaded = NoSnapshot =>
       /\ mainpc \in {"load", "fatal"}
       /\ ~listening
       /\ nreq = 0
       /\ \A p \in Procs : pc[p] = "idle"
       /\ sdpc = "wait"

C25_Witness ==
    /\ mainpc = "fatal"
    /\ loaded = NoSnapshot
    /\ file = Garbage

\* C26: a GET served while the collection has no task is answered 200 with
\* the empty JSON array.
C26_EmptyListsAsArray ==
    \A p \in Procs :
       (Served(p) /\ req[p].method = "GET" /\ tasks = <<>>) =>
          resp[p] = Response(StatusOK, [kind |-> "list", list |-> <<>>])

\* C27: a PUT that finds its id and whose body has no completed field leaves
\* the task with the title of the body and completed false, and answers 200
\* with the task so.
C27_PutDefaultsCompleted ==
    \A p \in Procs :
       (Served(p) /\ IsUpdate(req[p]) /\ ~req[p].body.hasCompleted) =>
          \A i \in 1..Len(pre[p].tasks) :
             FirstMatch(pre[p].tasks, TargetID(req[p]), i) =>
                /\ tasks[i] = Task(pre[p].tasks[i].id, req[p].body.title, FALSE)
                /\ resp[p] = Response(StatusOK, TaskBody(tasks[i]))

C27_Witness ==
    \E p \in Procs :
       /\ Served(p) /\ IsUpdate(req[p]) /\ ~req[p].body.hasCompleted
       /\ \E i \in 1..Len(pre[p].tasks) :
             /\ FirstMatch(pre[p].tasks, TargetID(req[p]), i)
             /\ pre[p].tasks[i].completed
             /\ ~tasks[i].completed

\* C28: when the process has exited after a signal and its Save returned no
\* error, tasks.json holds the collection as the served requests left it.
C28_AckedMutationsSaved ==
    (mainpc = "exited" /\ ~saveErr) => Holds(file, tasks)

\* C29: what a Save that succeeds writes is the collection as a completed
\* mutation (or the load) left it, never the slice in the middle of one.
C29_SaveWritesSnapshot ==
    [][(Save /\ ~saveErr') => Holds(file', committed.tasks)]_vars

\* C30: over all the runs of the process, no two Creates are answered with
\* the same id.
C30_NoReuseAcrossRestart ==
    \A i \in 1..Len(created) : \A j \in 1..Len(created) :
       i < j => created[i] # created[j]

\* C31: a Load that fails while it decodes the file (no JSON, or an array
\* with a wrongly typed field in one element) leaves tasks and lastID as
\* they were before the call.
C31_FailedDecodeChangesNothing ==
    [][(LoadCall /\ file # NoFile /\ call'.err) =>
          /\ tasks' = tasks /\ tasksNil' = tasksNil
          /\ lastID' = lastID
      ]_vars

\* The file holds a complete collection.  (Under SpecFaults no file holds
\* one at the start, so that every one there is was written by a Save that
\* succeeded.)
Good(content) == content.kind = "json"

\* C32: a Save whose rename succeeds, whatever becomes of its create and of
\* its write, leaves a complete collection in tasks.json or in
\* tasks.json.bak when one of them held one before.
C32_FailedSaveKeepsGoodCopy ==
    [][(/\ \E createOK \in BOOLEAN : \E writeOK \in BOOLEAN :
              SaveCall(TRUE, createOK, writeOK)
        /\ Good(file) \/ Good(bak)) =>
          Good(file') \/ Good(bak')
      ]_vars

\* C33: under fair scheduling every request that entered Tasks is answered
\* and Tasks returns: it returns only after it wrote a response, one that
\* nothing rewrites before the return; only a goroutine inside Tasks holds
\* the mutex, and none holds it once it has returned, so that every
\* goroutine that took the mutex gives it back.
C33_EveryRequestAnswered ==
    /\ [](\A p \in Procs :
            /\ pc[p] = "idle" => taskMutex # p
            /\ (resp[p] # NoResponse) <=> (pc[p] = "ret"))
    /\ [][\A p \in Procs :
            /\ resp[p] # NoResponse =>
                  \/ resp'[p] = resp[p]
                  \/ resp'[p] = NoResponse /\ pc'[p] = "idle"
            /\ (pc[p] # "idle" /\ pc'[p] = "idle") => Served(p)]_vars
    /\ \A p \in Procs : (pc[p] # "idle") ~> (pc[p] = "idle")

\* A request answered 404 still holds the mutex, and the other request
\* waits for it.
C33_Witness ==
    /\ Served(2) /\ resp[2].status = StatusNotFound
    /\ taskMutex = 2
    /\ pc[1] \in {"get_lock", "post_lock", "put_lock", "del_lock"}

\* The text of an integer: digits, after a sign or not.
IsNumber(seg) ==
    LET ds == IF seg # <<>> /\ Head(seg) \in {"+", "-"} THEN Tail(seg) ELSE seg
    IN  ds # <<>> /\ \A i \in 1..Len(ds) : IsDigit(ds[i])

\* The first check of a PUT that fails, in the order path shape, id, JSON,
\* title, existence of the id among the tasks ts; "" when none fails.
FirstFailure(r, ts) ==
    IF ~OnItem(r) THEN "Invalid URL"
    ELSE IF ~IsNumber(r.path[2]) THEN "Invalid Task ID"
    ELSE IF r.body.kind # "obj" THEN "Invalid JSON format"
    ELSE IF ~r.body.hasTitle \/ r.body.title = "" THEN "Task title cannot be empty"
    ELSE IF NoTaskWithID(ts, TargetID(r)) THEN "No task found with ID"
    ELSE ""

\* C34: a PUT is answered by the first of its checks that fails, in the
\* order path shape, id, JSON, title, existence: 400 with that check's
\* message and the mutex never taken for the first four, 404 for the last
\* (looked up in the collection found under the mutex), 200 when none fails;
\* a failed check leaves the collection as it was.
C34_PutChecksInOrder ==
    \A p \in Procs :
       (Served(p) /\ req[p].method = "PUT") =>
          LET ts == IF pre[p] = NoSnapshot THEN tasks ELSE pre[p].tasks
              f == FirstFailure(req[p], ts)
          IN  /\ f = "" =>
                    resp[p].status = StatusOK /\ pre[p] # NoSnapshot
              /\ f = "No task found with ID" =>
                    /\ resp[p] = NotFound(TargetID(req[p]))
                    /\ pre[p] # NoSnapshot /\ tasks = pre[p].tasks
              /\ f \notin {"", "No task found with ID"} =>
                    /\ resp[p] = JsonError(StatusBadRequest, f)
                    /\ pre[p] = NoSnapshot
                    /\ seen[p] = {[tasks |-> tasks, isNil |-> tasksNil]}

\* A PUT with an empty title for an id no task has: answered 400.
C34_Witness ==
    /\ Served(1) /\ req[1].method = "PUT"
    /\ req[1].path = PathTask(<<"2">>) /\ req[1].body = BodyEmptyTitle
    /\ NoTaskWithID(tasks, 2) /\ tasks # <<>>
    /\ resp[1].status = StatusBadRequest
====
